---- MODULE Spec2Model ----
(***************************************************************************)
(* A model of the kedro-datasets adapters BioSequenceDataset,              *)
(* GraphMLDataset, GBQTableDataset, GBQQueryDataset and CohereDataset.     *)
(*                                                                         *)
(* Python values are represented as follows.                               *)
(*   str   a sequence of string tokens; "" is << >>                        *)
(*   dict  a function whose domain is its set of keys                      *)
(*   Optional[x]  << >> for None and << x >> for a value                   *)
(*   list  a sequence                                                      *)
(***************************************************************************)
EXTENDS Naturals, Sequences, FiniteSets, TLC

\* ------------------------------------------------------------------ bounds

\* The largest number of rows a remote table holds (to_gbq with
\* if_exists="append" grows a table without limit).
MaxRows == 2

\* The largest number of version timestamps generate_timestamp() hands out.
MaxStamp == 2

\* The largest number of records in a list given to BioSequenceDataset.save.
MaxLen == 2

\* ---------------------------------------------------- Python built-ins

None == << >>

Some(x) == << x >>

EmptyDict == [k \in {} |-> << >>]

\* dict.get(key) with the default None.
Get(d, k) == IF k \in DOMAIN d THEN Some(d[k]) ELSE None

\* An update in which the keys already present win.
Update_KeepOld(d, u) ==
    [k \in (DOMAIN d) \cup (DOMAIN u) |-> IF k \in DOMAIN d THEN d[k] ELSE u[k]]

\* dict.update(other): the keys of other override, the rest survive.
Update(d, u) ==
    [k \in (DOMAIN d) \cup (DOMAIN u) |-> IF k \in DOMAIN u THEN u[k] ELSE d[k]]

\* dict.setdefault(key, value): sets the key only when it is absent.
SetDefault(d, k, v) ==
    [j \in (DOMAIN d) \cup {k} |-> IF j \in DOMAIN d THEN d[j] ELSE v]

\* d[key] = value.
SetItem(d, k, v) ==
    [j \in (DOMAIN d) \cup {k} |-> IF j = k THEN v ELSE d[j]]

\* The dict left by dict.pop(key, default).
Without(d, k) == [j \in (DOMAIN d) \ {k} |-> d[j]]

\* x or {} for an Optional[dict] x: None and the empty dict both give {}.
OrEmpty(opt) == IF opt = None THEN EmptyDict ELSE opt[1]

\* An exception of the named type leaving a call, or none.
Raise(kind) == << kind >>

NoRaise == << >>

\* Truthiness of an Optional[str]: None and "" are both false.
Truthy(opt) == opt # None /\ opt[1] # << >>

\* str(x) of an Optional[str]: None renders as the text "None".
Str(opt) == IF opt = None THEN << "None" >> ELSE opt[1]

\* copy.deepcopy(x) of a value: an equal value that shares nothing with x.
\* Values carry no identity here, so the copy is the value; what the copy
\* protects (the class-level defaults, the caller's dict) is modelled by the
\* operators that would otherwise write to it.
DeepCopy(x) == x

\* ------------------------------------------------------------ collaborators
\* google.oauth2.credentials.Credentials(**credentials).
Credentials(fields) == [type |-> "Credentials", fields |-> fields]

\* isinstance(credentials, dict): a dict is given as [type |-> "dict", ...].
IsDict(opt) == opt # None /\ opt[1].type = "dict"

\* bigquery.Client(project=, credentials=, location=).
BigQueryClient(project, credentials, location) ==
    [fn |-> "bigquery.Client", project |-> project,
     credentials |-> credentials, location |-> location]

\* kedro.io.core.validate_on_forbidden_chars(**kwargs): a space or a
\* semicolon in any value raises DatasetError.
ForbiddenChars == {" ", ";"}

validate_on_forbidden_chars(values) ==
    IF \E v \in values : \E i \in 1..Len(v) : v[i] \in ForbiddenChars
    THEN Raise("DatasetError") ELSE NoRaise

\* The remote faults a BigQuery call can end with besides "not found".
RemoteFaults == {"Forbidden", "ServiceUnavailable"}

\* The text of the generated query and the table it names.
SelectAll == "select * from "

TableId(dataset, table_name) == dataset \o << "." >> \o table_name

\* The service's answer to a query: the rows of the table a "select * from"
\* names, one fixed row for any other well-formed query, an error for the
\* empty text and for a table that does not exist.
RunQuery(bq, query) ==
    IF query = << >> THEN [raised |-> Raise("GenericGBQException"), value |-> None]
    ELSE IF query[1] = SelectAll
         THEN IF Tail(query) \in DOMAIN bq
              THEN [raised |-> NoRaise, value |-> Some(bq[Tail(query)])]
              ELSE [raised |-> Raise("GenericGBQException"), value |-> None]
         ELSE [raised |-> NoRaise, value |-> Some(<< "1" >>)]

\* pd.read_gbq(project_id=, credentials=, **kwargs): a missing query keyword
\* is a TypeError, a remote fault ends the call, else the query is run.
read_gbq(bq, kwargs, fault) ==
    IF "query" \notin DOMAIN kwargs
    THEN [raised |-> Raise("TypeError"), value |-> None, calls |-> << >>]
    ELSE LET call == [fn |-> "pd.read_gbq", query |-> kwargs["query"], kwargs |-> kwargs]
         IN IF fault # "none"
            THEN [raised |-> Raise(fault), value |-> None, calls |-> << call >>]
            ELSE [raised |-> RunQuery(bq, kwargs["query"]).raised,
                  value |-> RunQuery(bq, kwargs["query"]).value,
                  calls |-> << call >>]

\* DataFrame.to_gbq(destination_table, **kwargs): creates the table; on an
\* existing table if_exists decides: "fail" (the default) raises, "replace"
\* overwrites, "append" adds the rows.
to_gbq(bq, data, destination, kwargs, fault) ==
    LET if_exists == IF "if_exists" \in DOMAIN kwargs THEN kwargs["if_exists"] ELSE << "fail" >>
        call == [fn |-> "DataFrame.to_gbq", table |-> destination, kwargs |-> kwargs]
    IN IF fault # "none"
       THEN [raised |-> Raise(fault), bq |-> bq, calls |-> << call >>]
       ELSE IF destination \notin DOMAIN bq \/ if_exists = << "replace" >>
       THEN [raised |-> NoRaise, bq |-> SetItem(bq, destination, data), calls |-> << call >>]
       ELSE IF if_exists = << "append" >>
       THEN [raised |-> NoRaise, bq |-> SetItem(bq, destination, bq[destination] \o data),
             calls |-> << call >>]
       ELSE [raised |-> Raise("TableCreationError"), bq |-> bq, calls |-> << call >>]

\* Client.get_table(table_ref): the table, NotFound, or another fault.
get_table(bq, table, fault) ==
    IF fault # "none" THEN Raise(fault)
    ELSE IF table \in DOMAIN bq THEN NoRaise ELSE Raise("NotFound")

\* -------------------------------------------------------- GBQTableDataset

GBQTable_DEFAULT_LOAD_ARGS == EmptyDict

GBQTable_DEFAULT_SAVE_ARGS == [k \in {"progress_bar"} |-> << "False" >>]

\* A location check that compares the two locations only when both are set.
GBQTableDataset_validate_location_IfBoth(load_args, save_args) ==
    LET save_location == Get(save_args, "location")
        load_location == Get(load_args, "location")
    IN IF save_location # None /\ load_location # None /\ save_location # load_location
       THEN Raise("DatasetError") ELSE NoRaise

GBQTableDataset_validate_location(load_args, save_args) ==
    LET save_location == Get(save_args, "location")
        load_location == Get(load_args, "location")
    IN IF save_location # load_location THEN Raise("DatasetError") ELSE NoRaise

\* The class attributes DEFAULT_LOAD_ARGS and DEFAULT_SAVE_ARGS are dicts
\* that every instance of a class reaches through self; they are state.
VARIABLE
    classes  \* class name -> its DEFAULT_LOAD_ARGS and DEFAULT_SAVE_ARGS now

\* A merge that updates the class's dict itself and hands it to the instance.
MergedArgs_OnDefault(DEFAULT, user) ==
    IF user # None
    THEN [own |-> Update(DEFAULT, user[1]), DEFAULT |-> Update(DEFAULT, user[1])]
    ELSE [own |-> DEFAULT, DEFAULT |-> DEFAULT]

\* self._x_args = deepcopy(self.DEFAULT_X_ARGS), then .update(x_args) when
\* x_args is given: the instance's own dict, and the class's dict as the
\* statements leave it (the update is done to the copy).
MergedArgs(DEFAULT, user) ==
    IF user # None
    THEN [own |-> Update(DeepCopy(DEFAULT), user[1]), DEFAULT |-> DEFAULT]
    ELSE [own |-> DeepCopy(DEFAULT), DEFAULT |-> DEFAULT]

\* The table adapter's constructor. The result names the exception raised, if
\* any, the instance, the collaborators created, in order, and the class's
\* defaults after the call.
GBQTableDataset__init__(a) ==
    LET merged_load == MergedArgs(classes.GBQTableDataset.DEFAULT_LOAD_ARGS, a.load_args)
 load_args == merged_load.own
        merged_save == MergedArgs(classes.GBQTableDataset.DEFAULT_SAVE_ARGS, a.save_args)
        save_args == merged_save.own
        DEFAULTS == [DEFAULT_LOAD_ARGS |-> merged_load.DEFAULT,
                     DEFAULT_SAVE_ARGS |-> merged_save.DEFAULT]
        credentials == IF IsDict(a.credentials)
                       THEN Some(Credentials(a.credentials[1].fields))
                       ELSE a.credentials
        client == BigQueryClient(a.project, credentials, Get(save_args, "location"))
    IN IF GBQTableDataset_validate_location(load_args, save_args) # NoRaise
       THEN [DEFAULTS |-> DEFAULTS, raised |-> GBQTableDataset_validate_location(load_args, save_args),
             self |-> None, calls |-> << >>]
       ELSE IF validate_on_forbidden_chars({a.dataset, a.table_name}) # NoRaise
       THEN [DEFAULTS |-> DEFAULTS, raised |-> validate_on_forbidden_chars({a.dataset, a.table_name}),
             self |-> None, calls |-> << >>]
       ELSE [DEFAULTS |-> DEFAULTS, raised |-> NoRaise,
             self |-> Some([cls |-> "GBQTableDataset",
                            _load_args |-> load_args,
                            _save_args |-> save_args,
                            _dataset |-> a.dataset,
                            _table_name |-> a.table_name,
                            _project_id |-> a.project,
                            _credentials |-> credentials,
                            _client |-> client,
                            metadata |-> a.metadata]),
             calls |-> << client >>]

GBQTableDataset_describe(self) ==
    [dataset |-> self._dataset,
     table_name |-> self._table_name,
     load_args |-> self._load_args,
     save_args |-> self._save_args]

\* A _load that always runs the generated query.
GBQTableDataset_load_Generated(self, bq, fault) ==
    LET sql == << SelectAll >> \o TableId(self._dataset, self._table_name)
        load_args == SetItem(self._load_args, "query", sql)
        r == read_gbq(bq, load_args, fault)
    IN [raised |-> r.raised, value |-> r.value,
        self |-> [self EXCEPT !._load_args = load_args], calls |-> r.calls]

\* _load: the generated query is written into the instance's own load
\* options (setdefault) before the remote call.
GBQTableDataset_load(self, bq, fault) ==
    LET sql == << SelectAll >> \o TableId(self._dataset, self._table_name)
        load_args == SetDefault(self._load_args, "query", sql)
        r == read_gbq(bq, load_args, fault)
    IN [raised |-> r.raised, value |-> r.value,
        self |-> [self EXCEPT !._load_args = load_args], calls |-> r.calls]

GBQTableDataset_save(self, bq, data, fault) ==
    to_gbq(bq, data, TableId(self._dataset, self._table_name), self._save_args, fault)

\* An _exists that answers False to every exception of the probe.
GBQTableDataset_exists_CatchAll(self, bq, fault) ==
    LET probe == get_table(bq, TableId(self._dataset, self._table_name), fault)
        calls == << [fn |-> "Client.get_table", response |-> probe] >>
    IN IF probe = NoRaise THEN [raised |-> NoRaise, value |-> Some(TRUE), calls |-> calls]
       ELSE [raised |-> NoRaise, value |-> Some(FALSE), calls |-> calls]

\* _exists: only NotFound becomes False; any other exception leaves the call.
GBQTableDataset_exists(self, bq, fault) ==
    LET probe == get_table(bq, TableId(self._dataset, self._table_name), fault)
        calls == << [fn |-> "Client.get_table", response |-> probe] >>
    IN IF probe = NoRaise THEN [raised |-> NoRaise, value |-> Some(TRUE), calls |-> calls]
       ELSE IF probe = Raise("NotFound")
       THEN [raised |-> NoRaise, value |-> Some(FALSE), calls |-> calls]
       ELSE [raised |-> probe, value |-> None, calls |-> calls]

\* ------------------------------------------------- filesystem collaborator
\* A location is a str: "seq.fasta" is << "seq.fasta" >> and
\* "s3://bucket/seq.fasta" is << "s3", "://", "bucket/seq.fasta" >>.

\* kedro.io.core.get_protocol_and_path(filepath): the scheme before "://",
\* "file" when there is none, and the rest as the path.
get_protocol_and_path(filepath) ==
    IF Len(filepath) >= 2 /\ filepath[2] = "://"
    THEN << filepath[1], SubSeq(filepath, 3, Len(filepath)) >>
    ELSE << "file", filepath >>

HTTP_PROTOCOLS == {"http", "https"}

\* kedro.io.core.get_filepath_str(path, protocol): the scheme is put back in
\* front of the path for HTTP(S) only.
get_filepath_str(path, protocol) ==
    IF protocol \in HTTP_PROTOCOLS THEN << protocol, "://" >> \o path ELSE path

\* fsspec.filesystem(protocol, **credentials, **fs_args): a key given in both
\* dicts is a TypeError (two values for one keyword).
fsspec_filesystem(protocol, credentials, fs_args) ==
    IF (DOMAIN credentials) \cap (DOMAIN fs_args) # {}
    THEN [raised |-> Raise("TypeError"), fs |-> None]
    ELSE [raised |-> NoRaise,
          fs |-> Some([fn |-> "fsspec.filesystem", protocol |-> protocol,
                       kwargs |-> Update(credentials, fs_args)])]

\* A file is stored under << protocol, path, version >>, version 0 being the
\* unversioned file. The local filesystem keeps no listing cache; any other
\* protocol may answer from the listing it cached for a path until
\* invalidate_cache(path) drops it.
Cachable(protocol) == protocol # "file"

Versions(store, protocol, path) ==
    {k[3] : k \in {j \in DOMAIN store : j[1] = protocol /\ j[2] = path}}

\* The versions the filesystem believes to exist under a path.
Listing(store, cache, protocol, path) ==
    IF Cachable(protocol) /\ << protocol, path >> \in DOMAIN cache
    THEN cache[<< protocol, path >>]
    ELSE Versions(store, protocol, path)

\* The cache after a listing call (exists, glob) for the path.
Listed(store, cache, protocol, path) ==
    IF Cachable(protocol)
    THEN SetItem(cache, << protocol, path >>, Listing(store, cache, protocol, path))
    ELSE cache

\* fs.exists(path).
fs_exists(store, cache, protocol, path, version) ==
    [value |-> version \in Listing(store, cache, protocol, path),
     cache |-> Listed(store, cache, protocol, path)]

\* fs.open(path, mode="r").read(): the file's info comes from the cached
\* listing when there is one, the bytes from the store.
fs_read(store, cache, protocol, path, version) ==
    IF version \notin Listing(store, cache, protocol, path)
       \/ << protocol, path, version >> \notin DOMAIN store
    THEN [raised |-> Raise("FileNotFoundError"), value |-> None]
    ELSE [raised |-> NoRaise, value |-> Some(store[<< protocol, path, version >>])]

\* fs.open(path, mode="w").write(content).
fs_write(store, protocol, path, version, content) ==
    SetItem(store, << protocol, path, version >>, content)

\* fs.invalidate_cache(path).
fs_invalidate_cache(cache, protocol, path) == Without(cache, << protocol, path >>)

\* -------------------------------------------------------- GBQQueryDataset

GBQQuery_DEFAULT_LOAD_ARGS == EmptyDict

\* An argument check that lets sql and filepath through together.
GBQQueryDataset_check_arguments_NotBoth(sql, filepath) ==
    IF ~(Truthy(sql) \/ Truthy(filepath)) THEN Raise("DatasetError") ELSE NoRaise

\* The constructor's check of sql and filepath: both given, or neither, is
\* a DatasetError.
GBQQueryDataset_check_arguments(sql, filepath) ==
    IF Truthy(sql) /\ Truthy(filepath) THEN Raise("DatasetError")
    ELSE IF ~(Truthy(sql) \/ Truthy(filepath)) THEN Raise("DatasetError")
    ELSE NoRaise

\* The query adapter's constructor. In inline mode the attributes _protocol
\* and _fs are never assigned.
GBQQueryDataset__init__(a) ==
    LET merged_load == MergedArgs(classes.GBQQueryDataset.DEFAULT_LOAD_ARGS, a.load_args)
 load_args == merged_load.own
 DEFAULTS == [DEFAULT_LOAD_ARGS |-> merged_load.DEFAULT]
        credentials == IF IsDict(a.credentials)
                       THEN Some(Credentials(a.credentials[1].fields))
                       ELSE a.credentials
        client == BigQueryClient(a.project, credentials, Get(load_args, "location"))
        _fs_args == OrEmpty(DeepCopy(a.fs_args))
        _fs_credentials == IF "credentials" \in DOMAIN _fs_args
                           THEN _fs_args["credentials"] ELSE EmptyDict
        pp == get_protocol_and_path(Str(a.filepath))
        made == fsspec_filesystem(pp[1], _fs_credentials, Without(_fs_args, "credentials"))
    IN IF GBQQueryDataset_check_arguments(a.sql, a.filepath) # NoRaise
       THEN [DEFAULTS |-> DEFAULTS, raised |-> GBQQueryDataset_check_arguments(a.sql, a.filepath),
             self |-> None, calls |-> << >>]
       ELSE IF Truthy(a.sql)
       THEN [DEFAULTS |-> DEFAULTS, raised |-> NoRaise,
             self |-> Some([cls |-> "GBQQueryDataset",
                            _load_args |-> SetItem(load_args, "query", a.sql[1]),
                            _project_id |-> a.project,
                            _credentials |-> credentials,
                            _client |-> client,
                            _filepath |-> None,
                            metadata |-> a.metadata]),
             calls |-> << client >>]
       ELSE IF made.raised # NoRaise
       THEN [DEFAULTS |-> DEFAULTS, raised |-> made.raised, self |-> None, calls |-> << client >>]
       ELSE [DEFAULTS |-> DEFAULTS, raised |-> NoRaise,
             self |-> Some([cls |-> "GBQQueryDataset",
                            _load_args |-> load_args,
                            _project_id |-> a.project,
                            _credentials |-> credentials,
                            _client |-> client,
                            _protocol |-> pp[1],
                            _fs |-> made.fs[1],
                            _filepath |-> Some(pp[2]),
                            metadata |-> a.metadata]),
             calls |-> << client, made.fs[1] >>]

\* str(dict): the dict's rendering as text, one token per item.
StrDict(d) == [type |-> "str", items |-> {<< k, d[k] >> : k \in DOMAIN d}]

\* _describe: the query is reported under "sql" and left out of load_args;
\* all three entries are passed through str().
GBQQueryDataset_describe(self) ==
    LET load_args == DeepCopy(self._load_args)
    IN [sql |-> Str(Get(load_args, "query")),
        filepath |-> Str(self._filepath),
        load_args |-> StrDict(Without(load_args, "query"))]

\* _load: works on a copy of the load options; with a file path the file's
\* text replaces the copy's query.
GBQQueryDataset_load(self, bq, store, cache, fault) ==
    LET load_args == DeepCopy(self._load_args)
        load_path == get_filepath_str(self._filepath[1], self._protocol)
        opened == [fn |-> "fs.open", path |-> load_path, mode |-> "r"]
        file == fs_read(store, cache, self._protocol, load_path, 0)
    IN IF Truthy(self._filepath)
       THEN IF file.raised # NoRaise
            THEN [raised |-> file.raised, value |-> None, calls |-> << opened >>]
            ELSE LET r == read_gbq(bq, SetItem(load_args, "query", file.value[1]), fault)
                 IN [raised |-> r.raised, value |-> r.value, calls |-> << opened >> \o r.calls]
       ELSE LET r == read_gbq(bq, load_args, fault)
            IN [raised |-> r.raised, value |-> r.value, calls |-> r.calls]

\* A save that returns without raising.
GBQQueryDataset_save_Silent(self, data) == NoRaise

GBQQueryDataset_save(self, data) == Raise("DatasetError")

\* ---------------------------------------------------------- CohereDataset

\* The constructor: credentials["cohere_api_url"] and ["cohere_api_key"] are
\* subscripted, so a missing key is a KeyError.
CohereDataset__init__(a) ==
    IF "cohere_api_url" \notin DOMAIN a.credentials
       \/ "cohere_api_key" \notin DOMAIN a.credentials
    THEN [raised |-> Raise("KeyError"), self |-> None, calls |-> << >>]
    ELSE [raised |-> NoRaise,
          self |-> Some([cls |-> "CohereDataset",
                         cohere_api_url |-> a.credentials["cohere_api_url"],
                         cohere_api_key |-> a.credentials["cohere_api_key"],
                         kwargs |-> OrEmpty(a.kwargs)]),
          calls |-> << >>]

\* A describe that reports the API key along with the keyword arguments.
CohereDataset_describe_WithKey(self) ==
    SetItem(self.kwargs, "cohere_api_key", self.cohere_api_key)

CohereDataset_describe(self) == self.kwargs

CohereDataset_save(self, data) == Raise("DatasetError")

\* _load: Cohere(cohere_api_key="_", **kwargs), whose clients are then
\* replaced by ones made with the real key and URL.
CohereDataset_load(self) ==
    LET client_kwargs == [api_key |-> self.cohere_api_key, api_url |-> self.cohere_api_url]
        client == [fn |-> "cohere.Client", kwargs |-> client_kwargs]
        async_client == [fn |-> "cohere.AsyncClient", kwargs |-> client_kwargs]
    IN IF "cohere_api_key" \in DOMAIN self.kwargs
       THEN [raised |-> Raise("TypeError"), value |-> None, calls |-> << >>]
       ELSE [raised |-> NoRaise,
             value |-> Some([llm |-> "Cohere", kwargs |-> self.kwargs,
                             client |-> client, async_client |-> async_client]),
             calls |-> << client, async_client >>]

\* ------------------------------------------------------ BioSequenceDataset

BioSequence_DEFAULT_LOAD_ARGS == EmptyDict

BioSequence_DEFAULT_SAVE_ARGS == EmptyDict

\* A split that works on the caller's mapping itself: the pops and the
\* auto_mkdir default are seen by the caller.
SplitFsArgs_InPlace(fs_args, protocol, read_mode, write_mode) ==
    LET _fs_args == OrEmpty(fs_args)
        _fs_open_args_load == IF "open_args_load" \in DOMAIN _fs_args
                              THEN _fs_args["open_args_load"] ELSE EmptyDict
        _fs_open_args_save == IF "open_args_save" \in DOMAIN _fs_args
                              THEN _fs_args["open_args_save"] ELSE EmptyDict
        rest == Without(Without(_fs_args, "open_args_load"), "open_args_save")
        forwarded == IF protocol = "file"
                     THEN SetDefault(rest, "auto_mkdir", << "True" >>) ELSE rest
    IN [fs_args |-> forwarded,
        open_args_load |-> SetDefault(_fs_open_args_load, "mode", read_mode),
        open_args_save |-> SetDefault(_fs_open_args_save, "mode", write_mode),
        caller |-> IF fs_args = None \/ fs_args = Some(EmptyDict)
                   THEN fs_args ELSE Some(forwarded)]

\* The part of both file adapters' constructors that splits fs_args: the two
\* nested open-args dicts are popped, auto_mkdir is defaulted for the local
\* protocol, and the stream modes are defaulted. All of it is done to a deep
\* copy, so that the caller's mapping is after the call what it was before.
SplitFsArgs(fs_args, protocol, read_mode, write_mode) ==
    LET _fs_args == OrEmpty(DeepCopy(fs_args))
        _fs_open_args_load == IF "open_args_load" \in DOMAIN _fs_args
                              THEN _fs_args["open_args_load"] ELSE EmptyDict
        _fs_open_args_save == IF "open_args_save" \in DOMAIN _fs_args
                              THEN _fs_args["open_args_save"] ELSE EmptyDict
        rest == Without(Without(_fs_args, "open_args_load"), "open_args_save")
    IN [fs_args |-> IF protocol = "file"
                    THEN SetDefault(rest, "auto_mkdir", << "True" >>) ELSE rest,
        open_args_load |-> SetDefault(_fs_open_args_load, "mode", read_mode),
        open_args_save |-> SetDefault(_fs_open_args_save, "mode", write_mode),
        caller |-> fs_args]

BioSequenceDataset__init__(a) ==
    LET pp == get_protocol_and_path(a.filepath)
        split == SplitFsArgs(a.fs_args, pp[1], << "r" >>, << "w" >>)
        _credentials == OrEmpty(DeepCopy(a.credentials))
        made == fsspec_filesystem(pp[1], _credentials, split.fs_args)
        merged_load == MergedArgs(classes.BioSequenceDataset.DEFAULT_LOAD_ARGS, a.load_args)
        load_args == merged_load.own
        merged_save == MergedArgs(classes.BioSequenceDataset.DEFAULT_SAVE_ARGS, a.save_args)
        save_args == merged_save.own
        DEFAULTS == [DEFAULT_LOAD_ARGS |-> merged_load.DEFAULT,
                     DEFAULT_SAVE_ARGS |-> merged_save.DEFAULT]
    IN IF made.raised # NoRaise
       THEN [DEFAULTS |-> DEFAULTS, raised |-> made.raised, self |-> None, calls |-> << >>,
             fs_args |-> split.caller]
       ELSE [DEFAULTS |-> DEFAULTS, raised |-> NoRaise,
             fs_args |-> split.caller,
             self |-> Some([cls |-> "BioSequenceDataset",
                            _filepath |-> pp[2],
                            _protocol |-> pp[1],
                            _fs |-> made.fs[1],
                            _load_args |-> load_args,
                            _save_args |-> save_args,
                            _fs_open_args_load |-> split.open_args_load,
                            _fs_open_args_save |-> split.open_args_save,
                            metadata |-> a.metadata]),
             calls |-> << made.fs[1] >>]

BioSequenceDataset_describe(self) ==
    [filepath |-> self._filepath,
     protocol |-> self._protocol,
     load_args |-> self._load_args,
     save_args |-> self._save_args]

\* Bio.SeqIO.write(records, handle, "fasta"): a ">" line with the id, then a
\* line with the sequence, per record and in order.
RECURSIVE FastaWrite(_)
FastaWrite(records) ==
    IF records = << >> THEN << >>
    ELSE << << ">", Head(records).id >>, << Head(records).seq >> >>
         \o FastaWrite(Tail(records))

\* Bio.SeqIO.parse(handle, "fasta"): a record per ">" line, its sequence the
\* line after it.
RECURSIVE FastaParse(_)
FastaParse(lines) ==
    IF Len(lines) < 2 THEN << >>
    ELSE << [id |-> lines[1][2], seq |-> lines[2][1]] >>
         \o FastaParse(SubSeq(lines, 3, Len(lines)))

\* The format keyword of SeqIO.parse and SeqIO.write is required.
SeqIO_parse(lines, kwargs) ==
    IF "format" \notin DOMAIN kwargs
    THEN [raised |-> Raise("TypeError"), value |-> None]
    ELSE [raised |-> NoRaise, value |-> Some(FastaParse(lines))]

SeqIO_write(records, kwargs) ==
    IF "format" \notin DOMAIN kwargs
    THEN [raised |-> Raise("TypeError"), value |-> None]
    ELSE [raised |-> NoRaise, value |-> Some(FastaWrite(records))]

BioSequenceDataset_load(self, store, cache) ==
    LET load_path == get_filepath_str(self._filepath, self._protocol)
        file == fs_read(store, cache, self._protocol, load_path, 0)
    IN IF file.raised # NoRaise
       THEN [raised |-> file.raised, value |-> None]
       ELSE SeqIO_parse(file.value[1], self._load_args)

\* _save: the stream is opened for writing (which empties the file) before
\* SeqIO.write runs; the listing cache is left as it is.
BioSequenceDataset_save(self, store, cache, data) ==
    LET save_path == get_filepath_str(self._filepath, self._protocol)
        written == SeqIO_write(data, self._save_args)
    IN [raised |-> written.raised,
        store |-> fs_write(store, self._protocol, save_path, 0,
                           IF written.raised = NoRaise THEN written.value[1] ELSE << >>),
        cache |-> cache]

BioSequenceDataset_exists(self, store, cache) ==
    LET load_path == get_filepath_str(self._filepath, self._protocol)
    IN fs_exists(store, cache, self._protocol, load_path, 0)

BioSequenceDataset_invalidate_cache(self, cache) ==
    LET filepath == get_filepath_str(self._filepath, self._protocol)
    IN fs_invalidate_cache(cache, self._protocol, filepath)

\* A _release that invalidates nothing.
BioSequenceDataset_release_Nothing(self, cache) == cache

BioSequenceDataset_release(self, cache) ==
    BioSequenceDataset_invalidate_cache(self, cache)

\* ---------------------------------------------------------- GraphMLDataset

GraphML_DEFAULT_LOAD_ARGS == EmptyDict

GraphML_DEFAULT_SAVE_ARGS == EmptyDict

\* A version is Optional[[load: Optional[Nat], save: Optional[Nat]]]; versions
\* are numbered in time order, 1 being a tag of the past and the timestamps
\* generated in this run coming after it.
generate_timestamp(n) == n + 1

EmptyVersionCache == [load |-> None, save |-> None]

GraphMLDataset__init__(a) ==
    LET pp == get_protocol_and_path(a.filepath)
        split == SplitFsArgs(a.fs_args, pp[1], << "rb" >>, << "wb" >>)
        _credentials == OrEmpty(DeepCopy(a.credentials))
        made == fsspec_filesystem(pp[1], _credentials, split.fs_args)
        merged_load == MergedArgs(classes.GraphMLDataset.DEFAULT_LOAD_ARGS, a.load_args)
        load_args == merged_load.own
        merged_save == MergedArgs(classes.GraphMLDataset.DEFAULT_SAVE_ARGS, a.save_args)
        save_args == merged_save.own
        DEFAULTS == [DEFAULT_LOAD_ARGS |-> merged_load.DEFAULT,
                     DEFAULT_SAVE_ARGS |-> merged_save.DEFAULT]
    IN IF pp[1] \in HTTP_PROTOCOLS /\ a.version # None
       THEN [DEFAULTS |-> DEFAULTS, raised |-> Raise("DatasetError"), self |-> None, calls |-> << >>,
             fs_args |-> split.caller]
       ELSE IF made.raised # NoRaise
       THEN [DEFAULTS |-> DEFAULTS, raised |-> made.raised, self |-> None, calls |-> << >>,
             fs_args |-> split.caller]
       ELSE [DEFAULTS |-> DEFAULTS, raised |-> NoRaise,
             fs_args |-> split.caller,
             self |-> Some([cls |-> "GraphMLDataset",
                            _protocol |-> pp[1],
                            _fs |-> made.fs[1],
                            metadata |-> a.metadata,
                            _filepath |-> pp[2],
                            _version |-> a.version,
                            _version_cache |-> EmptyVersionCache,
                            _load_args |-> load_args,
                            _save_args |-> save_args,
                            _fs_open_args_load |-> split.open_args_load,
                            _fs_open_args_save |-> split.open_args_save]),
             calls |-> << made.fs[1] >>]

GraphMLDataset_describe(self) ==
    [filepath |-> self._filepath,
     protocol |-> self._protocol,
     load_args |-> self._load_args,
     save_args |-> self._save_args,
     version |-> self._version]

Max(S) == CHOOSE x \in S : \A y \in S : y <= x

\* AbstractVersionedDataset.resolve_load_version: the pinned load version,
\* else the cached one, else the latest version the filesystem lists (which
\* is then cached); VersionNotFoundError when it lists none. The result is
\* the version (0 without versioning), the version cache and the listing
\* cache after the call.
resolve_load_version(self, store, cache) ==
    LET listed == Listing(store, cache, self._protocol, self._filepath) \ {0}
    IN IF self._version = None
       THEN [raised |-> NoRaise, value |-> 0, vcache |-> self._version_cache, cache |-> cache]
       ELSE IF self._version[1].load # None
       THEN [raised |-> NoRaise, value |-> self._version[1].load[1],
             vcache |-> self._version_cache, cache |-> cache]
       ELSE IF self._version_cache.load # None
       THEN [raised |-> NoRaise, value |-> self._version_cache.load[1],
             vcache |-> self._version_cache, cache |-> cache]
       ELSE IF listed = {}
       THEN [raised |-> Raise("VersionNotFoundError"), value |-> 0,
             vcache |-> self._version_cache,
             cache |-> Listed(store, cache, self._protocol, self._filepath)]
       ELSE [raised |-> NoRaise, value |-> Max(listed),
             vcache |-> [self._version_cache EXCEPT !.load = Some(Max(listed))],
             cache |-> Listed(store, cache, self._protocol, self._filepath)]

\* AbstractVersionedDataset.resolve_save_version: the pinned save version,
\* else the cached one, else a fresh timestamp (which is then cached).
resolve_save_version(self, now) ==
    IF self._version = None
    THEN [value |-> 0, vcache |-> self._version_cache, clock |-> now]
    ELSE IF self._version[1].save # None
    THEN [value |-> self._version[1].save[1], vcache |-> self._version_cache, clock |-> now]
    ELSE IF self._version_cache.save # None
    THEN [value |-> self._version_cache.save[1], vcache |-> self._version_cache,
          clock |-> now]
    ELSE [value |-> generate_timestamp(now + 1),
          vcache |-> [self._version_cache EXCEPT !.save = Some(generate_timestamp(now + 1))],
          clock |-> now + 1]

\* networkx.write_graphml: node ids are written as their text.
write_graphml(g) ==
    [nodes |-> {n.text : n \in g.nodes},
     edges |-> {<< e[1].text, e[2].text >> : e \in g.edges}]

Numeric == {"0", "1"}

\* networkx.read_graphml(path, node_type=str): every node id is node_type of
\* its text; int() of a text that is no number is a ValueError.
read_graphml(xml, kwargs) ==
    LET node_type == IF "node_type" \in DOMAIN kwargs THEN kwargs["node_type"][1] ELSE "str"
        Node(t) == [type |-> node_type, text |-> t]
    IN IF node_type = "int" /\ \E t \in xml.nodes : t \notin Numeric
       THEN [raised |-> Raise("ValueError"), value |-> None]
       ELSE [raised |-> NoRaise,
             value |-> Some([nodes |-> {Node(t) : t \in xml.nodes},
                             edges |-> {<< Node(e[1]), Node(e[2]) >> : e \in xml.edges}])]

\* _load, with the version cache and listing cache it leaves behind.
GraphMLDataset_load(self, store, cache) ==
    LET v == resolve_load_version(self, store, cache)
        load_path == get_filepath_str(self._filepath, self._protocol)
        file == fs_read(store, v.cache, self._protocol, load_path, v.value)
        self1 == [self EXCEPT !._version_cache = v.vcache]
    IN IF v.raised # NoRaise
       THEN [raised |-> v.raised, value |-> None, self |-> self1, cache |-> v.cache]
       ELSE IF file.raised # NoRaise
       THEN [raised |-> file.raised, value |-> None, self |-> self1, cache |-> v.cache]
       ELSE [raised |-> read_graphml(file.value[1], self._load_args).raised,
             value |-> read_graphml(file.value[1], self._load_args).value,
             self |-> self1, cache |-> v.cache]

GraphMLDataset_invalidate_cache(self, cache) ==
    LET filepath == get_filepath_str(self._filepath, self._protocol)
    IN fs_invalidate_cache(cache, self._protocol, filepath)

\* _save for the save version already resolved: _get_save_path refuses a
\* versioned path that exists, then the file is written and the listing
\* cache invalidated.
GraphMLDataset_save(self, store, cache, version, data) ==
    LET save_path == get_filepath_str(self._filepath, self._protocol)
        probe == fs_exists(store, cache, self._protocol, save_path, version)
    IN IF self._version # None /\ probe.value
       THEN [raised |-> Raise("DatasetError"), store |-> store, cache |-> probe.cache]
       ELSE [raised |-> NoRaise,
             store |-> fs_write(store, self._protocol, save_path, version,
                                write_graphml(data)),
             cache |-> GraphMLDataset_invalidate_cache(
                           self, IF self._version # None THEN probe.cache ELSE cache)]

\* AbstractVersionedDataset.save(data): clears the version cache, resolves
\* the save version, saves, resolves the load version and warns when the two
\* differ.
GraphMLDataset_save_public(self, store, cache, now, data) ==
    LET cleared == [self EXCEPT !._version_cache = EmptyVersionCache]
        sv == resolve_save_version(cleared, now)
        self1 == [cleared EXCEPT !._version_cache = sv.vcache]
        saved == GraphMLDataset_save(self1, store, cache, sv.value, data[1])
        lv == resolve_load_version(self1, saved.store, saved.cache)
    IN IF data = None
       THEN [raised |-> Raise("DatasetError"), self |-> self1, store |-> store,
             cache |-> cache, clock |-> sv.clock, calls |-> << >>]
       ELSE IF saved.raised # NoRaise
       THEN [raised |-> saved.raised, self |-> self1, store |-> saved.store,
             cache |-> saved.cache, clock |-> sv.clock, calls |-> << >>]
       ELSE [raised |-> lv.raised,
             self |-> [self1 EXCEPT !._version_cache = lv.vcache],
             store |-> saved.store, cache |-> lv.cache, clock |-> sv.clock,
             calls |-> IF lv.raised = NoRaise /\ lv.value # sv.value
                       THEN << [fn |-> "warnings.warn"] >> ELSE << >>]

\* _exists, and AbstractVersionedDataset.exists around it, which answers
\* False to VersionNotFoundError.
GraphMLDataset_exists(self, store, cache) ==
    LET v == resolve_load_version(self, store, cache)
        load_path == get_filepath_str(self._filepath, self._protocol)
        probe == fs_exists(store, v.cache, self._protocol, load_path, v.value)
        self1 == [self EXCEPT !._version_cache = v.vcache]
    IN IF v.raised # NoRaise
       THEN [value |-> FALSE, self |-> self1, cache |-> v.cache]
       ELSE [value |-> probe.value, self |-> self1, cache |-> probe.cache]

\* _release: the version cache is cleared, then the listing cache invalidated.
GraphMLDataset_release(self, cache) ==
    [self |-> [self EXCEPT !._version_cache = EmptyVersionCache],
     cache |-> GraphMLDataset_invalidate_cache(self, cache)]

\* -------------------------------------------------------------- the state

VARIABLES
    insts,   \* slot -> the adapter instance held there, or NoInst
    bq,      \* the BigQuery service: table id -> rows, for the tables that exist
    store,   \* the filesystems' files: << protocol, path, version >> -> content
    cache,   \* the filesystems' listing caches: << protocol, path >> -> versions
    clock,   \* the number of version timestamps handed out so far
    ret      \* the last call: what was called, on what, with what arguments
             \* (arg) and how it ended; after is the caller's arguments as
             \* the call left them

vars == << classes, insts, bq, store, cache, clock, ret >>

NoInst == [cls |-> "none"]

Slots == {"a"}

\* The caller of a public method sees any exception that is not already a
\* DatasetError re-raised as a DatasetError carrying its cause
\* (AbstractDataset.load, save, exists and release).
Wrapped(raised) ==
    IF raised = NoRaise \/ raised = Raise("DatasetError") THEN raised
    ELSE << "DatasetError", raised[1] >>

Returned(op, s, raised, value, arg, calls) ==
    [op |-> op, slot |-> s, cls |-> insts[s].cls, raised |-> raised,
     value |-> value, arg |-> arg, calls |-> calls, after |-> arg]

\* describe() of an instance, by its class.
Describe(self) ==
    CASE self.cls = "GBQTableDataset" -> GBQTableDataset_describe(self)
      [] self.cls = "GBQQueryDataset" -> GBQQueryDataset_describe(self)
      [] self.cls = "CohereDataset" -> CohereDataset_describe(self)
      [] self.cls = "BioSequenceDataset" -> BioSequenceDataset_describe(self)
      [] self.cls = "GraphMLDataset" -> GraphMLDataset_describe(self)

\* The constructor of a class.
Construct(cls, a) ==
    CASE cls = "GBQTableDataset" -> GBQTableDataset__init__(a)
      [] cls = "GBQQueryDataset" -> GBQQueryDataset__init__(a)
      [] cls = "CohereDataset" -> CohereDataset__init__(a)
      [] cls = "BioSequenceDataset" -> BioSequenceDataset__init__(a)
      [] cls = "GraphMLDataset" -> GraphMLDataset__init__(a)

\* The class attributes DEFAULT_LOAD_ARGS and DEFAULT_SAVE_ARGS.
DEFAULT_LOAD_ARGS(cls) ==
    CASE cls = "GBQTableDataset" -> GBQTable_DEFAULT_LOAD_ARGS
      [] cls = "GBQQueryDataset" -> GBQQuery_DEFAULT_LOAD_ARGS
      [] cls = "BioSequenceDataset" -> BioSequence_DEFAULT_LOAD_ARGS
      [] cls = "GraphMLDataset" -> GraphML_DEFAULT_LOAD_ARGS

DEFAULT_SAVE_ARGS(cls) ==
    CASE cls = "GBQTableDataset" -> GBQTable_DEFAULT_SAVE_ARGS
      [] cls = "BioSequenceDataset" -> BioSequence_DEFAULT_SAVE_ARGS
      [] cls = "GraphMLDataset" -> GraphML_DEFAULT_SAVE_ARGS

\* ------------------------------------------------------------- the inputs

Secrets == {<< "secretA" >>, << "secretB" >>}

\* credentials=: None, or a dict of the fields of google's Credentials.
GBQCredentials ==
    {None} \cup {Some([type |-> "dict", fields |-> [token |-> x]]) : x \in Secrets}

Rows == {"r1", "r2"}

\* The data frames handed to save(): up to MaxRows rows.
Frames == UNION {[1..n -> Rows] : n \in 0..MaxRows}

Faults == {"none"} \cup RemoteFaults

GBQTableArgs ==
    [dataset : {<< "ds" >>, << "my", " ", "ds" >>},
     table_name : {<< "tbl" >>},
     project : {Some(<< "proj" >>)},
     credentials : GBQCredentials,
     load_args : {None,
                  Some([location |-> << "US" >>]),
                  Some([location |-> << "EU" >>]),
                  Some([query |-> << "SELECT 1" >>]),
                  Some([location |-> << "US" >>, query |-> << "SELECT 1" >>])},
     save_args : {None,
                  Some([location |-> << "US" >>]),
                  Some([location |-> << "EU" >>]),
                  Some([progress_bar |-> << "True" >>]),
                  Some([if_exists |-> << "replace" >>]),
                  Some([if_exists |-> << "append" >>, location |-> << "US" >>])},
     metadata : {None}]

\* The last one names a filesystem and no file in it: its path is empty.
QueryFiles == {<< "q.sql" >>, << "gcs", "://", "bucket/q.sql" >>, << "gcs", "://" >>}

QueryTexts == {<< "SELECT 1" >>, << "SELECT 2" >>}

GBQQueryArgs ==
    [sql : {None, Some(<< >>), Some(<< "SELECT 1" >>)},
     filepath : {None, Some(<< >>)} \cup {Some(f) : f \in QueryFiles},
     project : {Some(<< "proj" >>)},
     credentials : GBQCredentials,
     load_args : {None,
                  Some([location |-> << "US" >>]),
                  Some([query |-> << "SELECT 2" >>])},
     fs_args : {None,
                Some([credentials |-> [token |-> << "secretA" >>]]),
                Some([project |-> << "proj" >>])},
     metadata : {None}]

CohereArgs ==
    [credentials : {[cohere_api_url |-> << "https://api" >>, cohere_api_key |-> x] : x \in Secrets}
                   \cup {[cohere_api_key |-> << "secretA" >>]},
     kwargs : {None,
               Some([model |-> << "command" >>]),
               Some([model |-> << "command" >>, temperature |-> << "0.0" >>])}]

\* credentials= of the file adapters: None or the filesystem's own fields.
FsCredentials == {None} \cup {Some([token |-> x]) : x \in Secrets}

\* fs_args= of the file adapters.
FsArgs(read_mode) ==
    {None,
     Some([open_args_load |-> [mode |-> read_mode, encoding |-> << "utf-8" >>],
           anon |-> << "True" >>]),
     Some([open_args_save |-> [compression |-> << "gzip" >>],
           auto_mkdir |-> << "False" >>]),
     Some([token |-> << "anon" >>])}

SeqRecords ==
    {[id |-> "Alpha", seq |-> "ACCGGATGTA"], [id |-> "Beta", seq |-> "AGGCTCGGTTA"]}

\* The record lists handed to BioSequenceDataset.save(): up to MaxLen records.
SeqLists == UNION {[1..n -> SeqRecords] : n \in 0..MaxLen}

Fasta == Some([format |-> << "fasta" >>])

BioFiles == {<< "seq.fasta" >>, << "s3", "://", "bucket/seq.fasta" >>}

BioSequenceArgs ==
    [filepath : BioFiles, load_args : {None, Fasta}, save_args : {None, Fasta},
     credentials : {None}, fs_args : {None}, metadata : {None}]
    \cup
    [filepath : BioFiles, load_args : {Fasta}, save_args : {Fasta},
     credentials : FsCredentials, fs_args : FsArgs(<< "rt" >>), metadata : {None}]

StrNode(t) == [type |-> "str", text |-> t]

IntNode(t) == [type |-> "int", text |-> t]

\* Two graphs: one with text node ids, one with integer node ids.
Graphs ==
    {[nodes |-> {StrNode("a"), StrNode("b")}, edges |-> {<< StrNode("a"), StrNode("b") >>}],
     [nodes |-> {IntNode("0"), IntNode("1")}, edges |-> {<< IntNode("0"), IntNode("1") >>}]}

GraphFiles == {<< "g.graphml" >>, << "s3", "://", "bucket/g.graphml" >>}

\* version=: none, Version(None, None), Version("1", "1"), Version("1", None).
GraphVersions ==
    {None,
     Some([load |-> None, save |-> None]),
     Some([load |-> Some(1), save |-> Some(1)]),
     Some([load |-> Some(1), save |-> None])}

GraphMLArgs ==
    [filepath : GraphFiles, load_args : {None, Some([node_type |-> << "int" >>])},
     save_args : {None}, version : GraphVersions,
     credentials : {None}, fs_args : {None}, metadata : {None}]
    \cup
    [filepath : GraphFiles, load_args : {None},
     save_args : {None, Some([prettyprint |-> << "False" >>])}, version : {None},
     credentials : FsCredentials, fs_args : FsArgs(<< "r" >>), metadata : {None}]

\* ------------------------------------------------------------ the actions

\* The class attributes as the class bodies set them.
ClassBodies ==
    [GBQTableDataset |-> [DEFAULT_LOAD_ARGS |-> GBQTable_DEFAULT_LOAD_ARGS,
                          DEFAULT_SAVE_ARGS |-> GBQTable_DEFAULT_SAVE_ARGS],
     GBQQueryDataset |-> [DEFAULT_LOAD_ARGS |-> GBQQuery_DEFAULT_LOAD_ARGS],
     BioSequenceDataset |-> [DEFAULT_LOAD_ARGS |-> BioSequence_DEFAULT_LOAD_ARGS,
                             DEFAULT_SAVE_ARGS |-> BioSequence_DEFAULT_SAVE_ARGS],
     GraphMLDataset |-> [DEFAULT_LOAD_ARGS |-> GraphML_DEFAULT_LOAD_ARGS,
                         DEFAULT_SAVE_ARGS |-> GraphML_DEFAULT_SAVE_ARGS]]

Init ==
    /\ classes = ClassBodies
    /\ insts = [s \in Slots |-> NoInst]
    /\ bq = EmptyDict
    /\ store = EmptyDict
    /\ cache = EmptyDict
    /\ clock = 0
    /\ ret = [op |-> "none", slot |-> "a", cls |-> "none", raised |-> NoRaise,
              value |-> None, arg |-> None, calls |-> << >>, after |-> None]

\* A constructor call: the slot holds the instance when it returns and
\* stays empty when it raises.
Constructed(s, cls, r, a) ==
    /\ insts' = [insts EXCEPT ![s] = IF r.raised = NoRaise THEN r.self[1] ELSE NoInst]
    /\ ret' = [op |-> "__init__", slot |-> s, cls |-> cls, raised |-> r.raised,
               value |-> None, arg |-> Some(a), calls |-> r.calls,
               after |-> Some(IF "fs_args" \in DOMAIN r
                              THEN [a EXCEPT !.fs_args = r.fs_args] ELSE a)]
    /\ classes' = IF "DEFAULTS" \in DOMAIN r
                  THEN [classes EXCEPT ![cls] = r.DEFAULTS] ELSE classes
    /\ UNCHANGED << bq, store, cache, clock >>

ConstructGBQTable(s) ==
    /\ insts[s] = NoInst
    /\ \E a \in GBQTableArgs :
          Constructed(s, "GBQTableDataset", GBQTableDataset__init__(a), a)

ConstructGBQQuery(s) ==
    /\ insts[s] = NoInst
    /\ \E a \in GBQQueryArgs :
          Constructed(s, "GBQQueryDataset", GBQQueryDataset__init__(a), a)

\* GBQTableDataset.load().
GBQTableLoad(s) ==
    /\ insts[s].cls = "GBQTableDataset"
    /\ \E fault \in Faults :
          LET r == GBQTableDataset_load(insts[s], bq, fault)
          IN /\ insts' = [insts EXCEPT ![s] = r.self]
             /\ ret' = Returned("load", s, Wrapped(r.raised), r.value, None, r.calls)
    /\ UNCHANGED << classes, bq, store, cache, clock >>

\* GBQTableDataset.save(data): AbstractDataset.save refuses None before _save.
GBQTableSave(s) ==
    /\ insts[s].cls = "GBQTableDataset"
    /\ \E data \in {None} \cup {Some(f) : f \in Frames}, fault \in Faults :
          IF data = None
          THEN /\ ret' = Returned("save", s, Raise("DatasetError"), None, Some(data), << >>)
               /\ UNCHANGED bq
          ELSE LET r == GBQTableDataset_save(insts[s], bq, data[1], fault)
               IN /\ r.raised = NoRaise => Len(r.bq[r.calls[1].table]) <= MaxRows
                  /\ bq' = r.bq
                  /\ ret' = Returned("save", s, Wrapped(r.raised), None, Some(data), r.calls)
    /\ UNCHANGED << classes, insts, store, cache, clock >>

\* GBQTableDataset.exists().
GBQTableExists(s) ==
    /\ insts[s].cls = "GBQTableDataset"
    /\ \E fault \in Faults :
          LET r == GBQTableDataset_exists(insts[s], bq, fault)
          IN ret' = Returned("exists", s, Wrapped(r.raised), r.value, None, r.calls)
    /\ UNCHANGED << classes, insts, bq, store, cache, clock >>

\* GBQQueryDataset.load().
GBQQueryLoad(s) ==
    /\ insts[s].cls = "GBQQueryDataset"
    /\ \E fault \in Faults :
          LET r == GBQQueryDataset_load(insts[s], bq, store, cache, fault)
          IN ret' = Returned("load", s, Wrapped(r.raised), r.value, None, r.calls)
    /\ UNCHANGED << classes, insts, bq, store, cache, clock >>

\* GBQQueryDataset.save(data): always raises.
GBQQuerySave(s) ==
    /\ insts[s].cls = "GBQQueryDataset"
    /\ \E data \in {None} \cup {Some(f) : f \in Frames} :
          ret' = Returned("save", s, Wrapped(GBQQueryDataset_save(insts[s], data)),
                          None, Some(data), << >>)
    /\ UNCHANGED << classes, insts, bq, store, cache, clock >>

\* Somebody edits the query file a GBQQueryDataset points at.
EditQueryFile(s) ==
    /\ insts[s].cls = "GBQQueryDataset"
    /\ Truthy(insts[s]._filepath)
    /\ \E text \in QueryTexts :
          store' = fs_write(store, insts[s]._protocol, insts[s]._filepath[1], 0, text)
    /\ ret' = Returned("edit", s, NoRaise, None, None, << >>)
    /\ UNCHANGED << classes, insts, bq, cache, clock >>

ConstructCohere(s) ==
    /\ insts[s] = NoInst
    /\ \E a \in CohereArgs :
          Constructed(s, "CohereDataset", CohereDataset__init__(a), a)

ConstructBioSequence(s) ==
    /\ insts[s] = NoInst
    /\ \E a \in BioSequenceArgs :
          Constructed(s, "BioSequenceDataset", BioSequenceDataset__init__(a), a)

ConstructGraphML(s) ==
    /\ insts[s] = NoInst
    /\ \E a \in GraphMLArgs :
          Constructed(s, "GraphMLDataset", GraphMLDataset__init__(a), a)

\* CohereDataset.load().
CohereLoad(s) ==
    /\ insts[s].cls = "CohereDataset"
    /\ LET r == CohereDataset_load(insts[s])
       IN ret' = Returned("load", s, Wrapped(r.raised), r.value, None, r.calls)
    /\ UNCHANGED << classes, insts, bq, store, cache, clock >>

\* CohereDataset.save(data): always raises.
CohereSave(s) ==
    /\ insts[s].cls = "CohereDataset"
    /\ \E data \in {None} \cup {Some(f) : f \in Frames} :
          ret' = Returned("save", s, Wrapped(CohereDataset_save(insts[s], data)),
                          None, Some(data), << >>)
    /\ UNCHANGED << classes, insts, bq, store, cache, clock >>

\* exists() of an adapter that defines no _exists: AbstractDataset._exists
\* warns and answers False.
InheritedExists(s) ==
    /\ insts[s].cls \in {"CohereDataset", "GBQQueryDataset"}
    /\ ret' = Returned("exists", s, NoRaise, Some(FALSE), None, << >>)
    /\ UNCHANGED << classes, insts, bq, store, cache, clock >>

\* release() of an adapter that defines no _release: nothing happens.
InheritedRelease(s) ==
    /\ insts[s].cls \in {"CohereDataset", "GBQQueryDataset", "GBQTableDataset"}
    /\ ret' = Returned("release", s, NoRaise, None, None, << >>)
    /\ UNCHANGED << classes, insts, bq, store, cache, clock >>

\* BioSequenceDataset.load().
BioSequenceLoad(s) ==
    /\ insts[s].cls = "BioSequenceDataset"
    /\ LET r == BioSequenceDataset_load(insts[s], store, cache)
       IN ret' = Returned("load", s, Wrapped(r.raised), r.value, None,
                          << [fn |-> "fs.open", kwargs |-> insts[s]._fs_open_args_load] >>)
    /\ UNCHANGED << classes, insts, bq, store, cache, clock >>

\* BioSequenceDataset.save(data).
BioSequenceSave(s) ==
    /\ insts[s].cls = "BioSequenceDataset"
    /\ \E data \in {None} \cup {Some(x) : x \in SeqLists} :
          IF data = None
          THEN /\ ret' = Returned("save", s, Raise("DatasetError"), None, Some(data), << >>)
               /\ UNCHANGED << store, cache >>
          ELSE LET r == BioSequenceDataset_save(insts[s], store, cache, data[1])
               IN /\ store' = r.store
                  /\ cache' = r.cache
                  /\ ret' = Returned("save", s, Wrapped(r.raised), None, Some(data),
                                     << [fn |-> "fs.open",
                                         kwargs |-> insts[s]._fs_open_args_save] >>)
    /\ UNCHANGED << classes, insts, bq, clock >>

\* BioSequenceDataset.exists().
BioSequenceExists(s) ==
    /\ insts[s].cls = "BioSequenceDataset"
    /\ LET r == BioSequenceDataset_exists(insts[s], store, cache)
       IN /\ cache' = r.cache
          /\ ret' = Returned("exists", s, NoRaise, Some(r.value), None, << >>)
    /\ UNCHANGED << classes, insts, bq, store, clock >>

\* BioSequenceDataset.release().
BioSequenceRelease(s) ==
    /\ insts[s].cls = "BioSequenceDataset"
    /\ cache' = BioSequenceDataset_release(insts[s], cache)
    /\ ret' = Returned("release", s, NoRaise, None, None, << >>)
    /\ UNCHANGED << classes, insts, bq, store, clock >>

\* GraphMLDataset.load().
GraphMLLoad(s) ==
    /\ insts[s].cls = "GraphMLDataset"
    /\ LET r == GraphMLDataset_load(insts[s], store, cache)
       IN /\ insts' = [insts EXCEPT ![s] = r.self]
          /\ cache' = r.cache
          /\ ret' = Returned("load", s, Wrapped(r.raised), r.value, None,
                             IF r.raised = Raise("VersionNotFoundError") THEN << >>
                             ELSE << [fn |-> "fs.open",
                                      kwargs |-> insts[s]._fs_open_args_load] >>)
    /\ UNCHANGED << classes, bq, store, clock >>

\* GraphMLDataset.save(data).
GraphMLSave(s) ==
    /\ insts[s].cls = "GraphMLDataset"
    /\ \E data \in {None} \cup {Some(g) : g \in Graphs} :
          LET r == GraphMLDataset_save_public(insts[s], store, cache, clock, data)
          IN /\ r.clock <= MaxStamp
             /\ insts' = [insts EXCEPT ![s] = r.self]
             /\ store' = r.store
             /\ cache' = r.cache
             /\ clock' = r.clock
             /\ ret' = Returned("save", s, Wrapped(r.raised), None, Some(data),
                                IF r.raised = Raise("DatasetError") THEN << >>
                                ELSE << [fn |-> "fs.open",
                                         kwargs |-> insts[s]._fs_open_args_save] >>
                                     \o r.calls)
    /\ UNCHANGED << classes, bq >>

\* GraphMLDataset.exists().
GraphMLExists(s) ==
    /\ insts[s].cls = "GraphMLDataset"
    /\ LET r == GraphMLDataset_exists(insts[s], store, cache)
       IN /\ insts' = [insts EXCEPT ![s] = r.self]
          /\ cache' = r.cache
          /\ ret' = Returned("exists", s, NoRaise, Some(r.value), None, << >>)
    /\ UNCHANGED << classes, bq, store, clock >>

\* GraphMLDataset.release().
GraphMLRelease(s) ==
    /\ insts[s].cls = "GraphMLDataset"
    /\ LET r == GraphMLDataset_release(insts[s], cache)
       IN /\ insts' = [insts EXCEPT ![s] = r.self]
          /\ cache' = r.cache
          /\ ret' = Returned("release", s, NoRaise, None, None, << >>)
    /\ UNCHANGED << classes, bq, store, clock >>

Next ==
    \E s \in Slots :
       \/ ConstructGBQTable(s)
       \/ ConstructGBQQuery(s)
       \/ GBQTableLoad(s)
       \/ GBQTableSave(s)
       \/ GBQTableExists(s)
       \/ GBQQueryLoad(s)
       \/ GBQQuerySave(s)
       \/ EditQueryFile(s)
       \/ ConstructCohere(s)
       \/ ConstructBioSequence(s)
       \/ ConstructGraphML(s)
       \/ CohereLoad(s)
       \/ CohereSave(s)
       \/ InheritedExists(s)
       \/ InheritedRelease(s)
       \/ BioSequenceLoad(s)
       \/ BioSequenceSave(s)
       \/ BioSequenceExists(s)
       \/ BioSequenceRelease(s)
       \/ GraphMLLoad(s)
       \/ GraphMLSave(s)
       \/ GraphMLExists(s)
       \/ GraphMLRelease(s)

Spec == Init /\ [][Next]_vars

\* Two instances alive at once, of the classes that have class-level
\* defaults, each constructed from a few of the arguments above and called
\* with one value to save.
TwoSlots == {"a", "b"}

FewGBQTableArgs ==
    {a \in GBQTableArgs :
        /\ a.dataset = << "ds" >> /\ a.credentials = None
        /\ a.load_args \in {None, Some([query |-> << "SELECT 1" >>]),
                            Some([location |-> << "US" >>])}
        /\ a.save_args \in {None, Some([location |-> << "US" >>]),
                            Some([if_exists |-> << "replace" >>])}}

FewGBQQueryArgs ==
    {a \in GBQQueryArgs :
        /\ a.credentials = None /\ a.fs_args = None
        /\ a.sql \in {None, Some(<< "SELECT 1" >>)}
        /\ a.filepath \in {None, Some(<< "q.sql" >>)}
        /\ a.load_args \in {None, Some([query |-> << "SELECT 2" >>])}}

FewBioSequenceArgs ==
    {a \in BioSequenceArgs :
        /\ a.filepath = << "s3", "://", "bucket/seq.fasta" >>
        /\ a.credentials = None /\ a.fs_args = None /\ a.load_args = Fasta}

FewGraphMLArgs ==
    {a \in GraphMLArgs :
        /\ a.filepath = << "g.graphml" >> /\ a.version = None
        /\ a.credentials = None /\ a.fs_args = None}

FewFrames == {Some(f) : f \in {g \in Frames : g = << "r1" >>}}

FewSeqLists == {Some(l) : l \in {m \in SeqLists : Len(m) = 1 /\ m[1].id = "Alpha"}}

FewGraphs == {Some(g) : g \in {h \in Graphs : \A n \in h.nodes : n.type = "str"}}

InitTwo ==
    /\ classes = ClassBodies
    /\ insts = [s \in TwoSlots |-> NoInst]
    /\ bq = EmptyDict
    /\ store = EmptyDict
    /\ cache = EmptyDict
    /\ clock = 0
    /\ ret = [op |-> "none", slot |-> "a", cls |-> "none", raised |-> NoRaise,
              value |-> None, arg |-> None, calls |-> << >>, after |-> None]

NextTwo ==
    \E s \in TwoSlots :
       \/ ConstructGBQTable(s) /\ ret'.arg[1] \in FewGBQTableArgs
       \/ ConstructGBQQuery(s) /\ ret'.arg[1] \in FewGBQQueryArgs
       \/ ConstructBioSequence(s) /\ ret'.arg[1] \in FewBioSequenceArgs
       \/ ConstructGraphML(s) /\ ret'.arg[1] \in FewGraphMLArgs
       \/ GBQTableLoad(s)
       \/ GBQTableSave(s) /\ ret'.arg[1] \in FewFrames
       \/ GBQTableExists(s)
       \/ GBQQueryLoad(s)
       \/ BioSequenceLoad(s)
       \/ BioSequenceSave(s) /\ ret'.arg[1] \in FewSeqLists
       \/ BioSequenceExists(s)
       \/ BioSequenceRelease(s)
       \/ GraphMLLoad(s)
       \/ GraphMLSave(s) /\ ret'.arg[1] \in FewGraphs
       \/ GraphMLExists(s)
       \/ GraphMLRelease(s)

SpecTwo == InitTwo /\ [][NextTwo]_vars

\* ------------------------------------------------------------- the claims

\* The constructor call that has just returned, and what it was given.
JustConstructed(cls) == ret.op = "__init__" /\ ret.cls = cls

\* C1. Constructing GBQQueryDataset with both sql and filepath given (given
\* meaning non-empty), or with neither, raises DatasetError, and then no
\* BigQuery client and no filesystem handle has been created and no instance
\* exists; the constructor gets as far as creating the client only when
\* exactly one of the two is given.
C1_QueryNeedsExactlyOne ==
    JustConstructed("GBQQueryDataset") =>
        LET sql == Truthy(ret.arg[1].sql)
            filepath == Truthy(ret.arg[1].filepath)
        IN /\ (sql = filepath) =>
                  /\ ret.raised = Raise("DatasetError")
                  /\ ret.calls = << >>
                  /\ insts[ret.slot] = NoInst
           /\ (ret.calls # << >> \/ ret.raised = NoRaise) => (sql # filepath)
           /\ (sql # filepath) => ret.calls # << >>

C1_Witness ==
    /\ JustConstructed("GBQQueryDataset")
    /\ Truthy(ret.arg[1].sql) /\ Truthy(ret.arg[1].filepath)
    /\ ret.raised = Raise("DatasetError")

\* The 'location' a user's Optional[dict] of options carries, if any.
UserLocation(opt) == IF opt = None THEN None ELSE Get(opt[1], "location")

\* C2. Constructing GBQTableDataset with load and save options that carry
\* different 'location' values, one of them possibly carrying none, raises
\* DatasetError with no BigQuery client created and no instance left; with
\* equal locations, or none in either, the construction is rejected only for
\* forbidden characters in the dataset or table name.
C2_LocationsMustAgree ==
    JustConstructed("GBQTableDataset") =>
        LET a == ret.arg[1]
        IN /\ UserLocation(a.load_args) # UserLocation(a.save_args) =>
                  /\ ret.raised = Raise("DatasetError")
                  /\ ret.calls = << >>
                  /\ insts[ret.slot] = NoInst
           /\ UserLocation(a.load_args) = UserLocation(a.save_args) =>
                  \/ ret.raised = NoRaise /\ insts[ret.slot] # NoInst
                  \/ \E v \in {a.dataset, a.table_name} :
                        \E i \in 1..Len(v) : v[i] \in ForbiddenChars

C2_Witness ==
    /\ JustConstructed("GBQTableDataset")
    /\ UserLocation(ret.arg[1].load_args) = Some(<< "US" >>)
    /\ UserLocation(ret.arg[1].save_args) = Some(<< "EU" >>)
    /\ ret.raised = Raise("DatasetError")

ReadOnlyClasses == {"CohereDataset", "GBQQueryDataset"}

\* C3. Every save(data) on a CohereDataset or GBQQueryDataset raises
\* DatasetError, makes no call to a collaborator, and leaves the instance,
\* the BigQuery tables, the files and the listing caches as they were (so
\* that every later load() and describe() answers as if it had not happened).
C3_ReadOnlySaveRaises ==
    [][(ret'.op = "save" /\ ret'.cls \in ReadOnlyClasses) =>
          /\ ret'.raised = Raise("DatasetError")
          /\ ret'.calls = << >>
          /\ << insts, bq, store, cache, clock >>' = << insts, bq, store, cache, clock >>]_vars

C3_Witness ==
    /\ ret.op = "save" /\ ret.cls = "GBQQueryDataset"
    /\ ret.arg[1] # None
    /\ ret.raised = Raise("DatasetError")

\* The adapters that report load_args and save_args as dicts.
TwoMapClasses == {"GBQTableDataset", "BioSequenceDataset", "GraphMLDataset"}

\* m is the default dict overridden key by key with the user's dict: every
\* user key has the user's value, every other default key its default, and
\* there is no further key.
IsMerge(m, default, user) ==
    /\ DOMAIN m = (DOMAIN default) \cup (DOMAIN user)
    /\ \A k \in DOMAIN user : m[k] = user[k]
    /\ \A k \in (DOMAIN default) \ (DOMAIN user) : m[k] = default[k]

\* The same of the rendered items of a dict, leaving the keys in `hidden` out.
IsRenderedMerge(text, default, user, hidden) ==
    text = [type |-> "str",
            items |-> {<< k, IF k \in DOMAIN user THEN user[k] ELSE default[k] >> :
                          k \in ((DOMAIN default) \cup (DOMAIN user)) \ hidden}]

\* C4 as stated. Right after a successful construction, describe() of every
\* adapter with default option maps reports the defaults overridden key by
\* key with the user's options (GBQQueryDataset reports the map as text).
C4_DescribeReportsMerge ==
    (ret.op = "__init__" /\ ret.raised = NoRaise) =>
        LET d == Describe(insts[ret.slot])
            a == ret.arg[1]
        IN /\ ret.cls \in TwoMapClasses =>
                  /\ IsMerge(d.load_args, DEFAULT_LOAD_ARGS(ret.cls), OrEmpty(a.load_args))
                  /\ IsMerge(d.save_args, DEFAULT_SAVE_ARGS(ret.cls), OrEmpty(a.save_args))
           /\ ret.cls = "GBQQueryDataset" =>
                  IsRenderedMerge(d.load_args, DEFAULT_LOAD_ARGS(ret.cls),
                                  OrEmpty(a.load_args), {})

\* C4 as amended. The same, except that GBQQueryDataset never reports a
\* 'query' key in load_args: describe() reports under 'sql' the constructor's
\* sql when one was given, else the user's 'query' option, else "None".
C4_DescribeReportsMergeButQuery ==
    (ret.op = "__init__" /\ ret.raised = NoRaise) =>
        LET d == Describe(insts[ret.slot])
            a == ret.arg[1]
        IN /\ ret.cls \in TwoMapClasses =>
                  /\ IsMerge(d.load_args, DEFAULT_LOAD_ARGS(ret.cls), OrEmpty(a.load_args))
                  /\ IsMerge(d.save_args, DEFAULT_SAVE_ARGS(ret.cls), OrEmpty(a.save_args))
           /\ ret.cls = "GBQQueryDataset" =>
                  /\ IsRenderedMerge(d.load_args, DEFAULT_LOAD_ARGS(ret.cls),
                                     OrEmpty(a.load_args), {"query"})
                  /\ d.sql = IF Truthy(a.sql) THEN a.sql[1]
                             ELSE Str(Get(OrEmpty(a.load_args), "query"))

\* A query adapter built with an inline query and a 'query' load option of
\* the user's besides.
C4_Witness ==
    /\ ret.op = "__init__" /\ ret.raised = NoRaise /\ ret.cls = "GBQQueryDataset"
    /\ Truthy(ret.arg[1].sql)
    /\ ret.arg[1].load_args = Some([query |-> << "SELECT 2" >>])
    /\ Describe(insts[ret.slot]).sql = << "SELECT 1" >>

\* C5 as stated. describe() of an instance never changes once it has been
\* constructed, whatever is called on it.
C5_DescribeNeverChanges ==
    [][\A s \in Slots :
          insts[s] # NoInst => Describe(insts'[s]) = Describe(insts[s])]_vars

FileClasses == {"BioSequenceDataset", "GraphMLDataset"}

\* The listing-cache key of a file adapter's path.
CacheKey(self) == << self._protocol, get_filepath_str(self._filepath, self._protocol) >>

\* The filesystem holds a listing for the adapter's path that is not what
\* the store holds now.
StaleListing(self) ==
    /\ CacheKey(self) \in DOMAIN cache
    /\ cache[CacheKey(self)] # Versions(store, CacheKey(self)[1], CacheKey(self)[2])

\* C6 as stated. When save(data) of a file adapter has returned normally, the
\* filesystem holds no stale listing for the adapter's path.
C6_SaveInvalidatesCache ==
    (ret.op = "save" /\ ret.raised = NoRaise /\ ret.cls \in FileClasses) =>
        ~StaleListing(insts[ret.slot])

\* A call that ended with a remote fault of the BigQuery service.
Faulted(r) == \E f \in RemoteFaults : r.raised = << "DatasetError", f >>

\* The generated query of a table adapter.
GeneratedQuery(self) == << SelectAll >> \o TableId(self._dataset, self._table_name)

\* The cases of the round-trip law: the save that has just returned wrote x
\* where load() reads. For the table adapter, load() runs the generated query
\* and the table holds x alone; for the graph adapter, save() did not warn of
\* differing load and save versions and x's node ids have the type load()
\* gives them; for the sequence adapter, load() names a format.
RoundTripCase(self, saved) ==
    LET x == saved.arg[1][1]
    IN CASE self.cls = "GBQTableDataset" ->
                /\ Get(self._load_args, "query") \in {None, Some(GeneratedQuery(self))}
                /\ bq[TableId(self._dataset, self._table_name)] = x
         [] self.cls = "GraphMLDataset" ->
                /\ saved.calls = << [fn |-> "fs.open", kwargs |-> self._fs_open_args_save] >>
                /\ \A n \in x.nodes :
                      n.type = IF "node_type" \in DOMAIN self._load_args
                               THEN self._load_args["node_type"][1] ELSE "str"
         [] self.cls = "BioSequenceDataset" -> "format" \in DOMAIN self._load_args
         [] OTHER -> FALSE

\* C7 as stated. A load() called right after a successful save(x) on the
\* same adapter returns x (the remote service not failing meanwhile).
C7_RoundTrip ==
    [][(/\ ret.op = "save" /\ ret.raised = NoRaise
        /\ ret'.op = "load" /\ ret'.slot = ret.slot
        /\ RoundTripCase(insts[ret.slot], ret)
        /\ ~Faulted(ret'))
       => (ret'.raised = NoRaise /\ ret'.value = Some(ret.arg[1][1]))]_vars

\* Nothing is stored at the adapter's location.
Absent(self) ==
    IF self.cls = "GBQTableDataset"
    THEN TableId(self._dataset, self._table_name) \notin DOMAIN bq
    ELSE Versions(store, CacheKey(self)[1], CacheKey(self)[2]) = {}

\* C8 as stated. exists() of a sequence-file, graph-file or table adapter
\* does not raise (the remote service not failing), answers False when
\* nothing is stored at the location, and answers True right after a
\* successful save() on the same adapter (one that did not warn of differing
\* load and save versions).
C8_ExistsAfterSave ==
    [][(/\ ret'.op = "exists"
        /\ ret'.cls \in FileClasses \cup {"GBQTableDataset"}
        /\ ~Faulted(ret'))
       => /\ ret'.raised = NoRaise
          /\ Absent(insts[ret'.slot]) => ret'.value = Some(FALSE)
          /\ (/\ ret.op = "save" /\ ret.raised = NoRaise /\ ret.slot = ret'.slot
              /\ \A i \in 1..Len(ret.calls) : ret.calls[i].fn # "warnings.warn")
             => ret'.value = Some(TRUE)]_vars

\* The values credentials= can take for a class.
CredentialChoices(cls) ==
    CASE cls = "CohereDataset" ->
             {[cohere_api_url |-> u, cohere_api_key |-> x] :
                 u \in {<< "https://api" >>} \cup Secrets, x \in Secrets}
      [] cls \in {"GBQTableDataset", "GBQQueryDataset"} -> GBQCredentials
      [] cls \in FileClasses -> FsCredentials

\* The values a describe() mapping reports, text entries and dict entries
\* alike.
Reported(self) ==
    LET d == Describe(self)
        Values(m) == {m[k] : k \in DOMAIN m}
    IN CASE self.cls = "CohereDataset" -> Values(d)
         [] self.cls = "GBQTableDataset" ->
                {d.dataset, d.table_name} \cup Values(d.load_args) \cup Values(d.save_args)
         [] self.cls = "GBQQueryDataset" ->
                {d.sql, d.filepath} \cup {i[2] : i \in d.load_args.items}
         [] self.cls \in FileClasses ->
                {d.filepath, << d.protocol >>} \cup Values(d.load_args)
                \cup Values(d.save_args)

\* C9. describe() of every instance reports no credential value, and an
\* instance constructed with the same arguments but other credentials
\* describes itself identically.
C9_DescribeHidesCredentials ==
    /\ \A s \in Slots : insts[s] # NoInst => Reported(insts[s]) \cap Secrets = {}
    /\ (ret.op = "__init__" /\ ret.raised = NoRaise) =>
          \A c \in CredentialChoices(ret.cls) :
             LET other == Construct(ret.cls, [ret.arg[1] EXCEPT !.credentials = c])
             IN other.raised = NoRaise =>
                   Describe(other.self[1]) = Describe(insts[ret.slot])

\* A hosted-model adapter holding a key and a URL, with keyword arguments
\* to describe.
C9_Witness ==
    /\ ret.op = "__init__" /\ ret.raised = NoRaise /\ ret.cls = "CohereDataset"
    /\ insts[ret.slot].cohere_api_key \in Secrets
    /\ DOMAIN Describe(insts[ret.slot]) = {"model", "temperature"}

\* C10. GBQTableDataset.exists() answers True when the probe of the table
\* succeeds and False when the probe answers NotFound; any other fault of
\* the probe reaches the caller as an error carrying that fault, with no
\* answer.
C10_OnlyNotFoundIsFalse ==
    (ret.op = "exists" /\ ret.cls = "GBQTableDataset") =>
        LET response == ret.calls[1].response
        IN /\ response = NoRaise => (ret.raised = NoRaise /\ ret.value = Some(TRUE))
           /\ response = Raise("NotFound") =>
                 (ret.raised = NoRaise /\ ret.value = Some(FALSE))
           /\ response \notin {NoRaise, Raise("NotFound")} =>
                 (ret.raised = << "DatasetError", response[1] >> /\ ret.value = None)

C10_Witness ==
    /\ ret.op = "exists" /\ ret.cls = "GBQTableDataset"
    /\ ret.calls[1].response = Raise("Forbidden")
    /\ ret.raised = << "DatasetError", "Forbidden" >>

\* A release() step of a file adapter.
ReleaseStep == ret'.op = "release" /\ ret'.cls \in FileClasses

\* An instance but for the versions it remembers having resolved.
Configuration(self) ==
    IF self.cls = "GraphMLDataset"
    THEN [self EXCEPT !._version_cache = EmptyVersionCache]
    ELSE self

\* What holds of every release() of a file adapter: the stored data, the
\* configuration and every other path's listing are left alone, and a second
\* release() in a row changes nothing.
ReleaseFrame ==
    /\ ReleaseStep =>
          /\ store' = store /\ bq' = bq /\ clock' = clock
          /\ ret'.raised = NoRaise
          /\ Configuration(insts'[ret'.slot]) = Configuration(insts[ret'.slot])
          /\ Describe(insts'[ret'.slot]) = Describe(insts[ret'.slot])
          /\ \A k \in DOMAIN cache \ {CacheKey(insts[ret'.slot])} :
                k \in DOMAIN cache' /\ cache'[k] = cache[k]
          /\ DOMAIN cache' \subseteq DOMAIN cache
    /\ (ReleaseStep /\ ret.op = "release" /\ ret.slot = ret'.slot) =>
          (insts' = insts /\ cache' = cache)

\* C11 as stated. release() of a sequence-file or graph-file adapter is
\* idempotent, changes nothing but the filesystem's cache entry for the
\* adapter's path, and changes nothing at all when there is no such entry.
C11_ReleaseOnlyInvalidates ==
    [][/\ ReleaseFrame
       /\ (ReleaseStep /\ CacheKey(insts[ret'.slot]) \notin DOMAIN cache) =>
             (insts' = insts /\ cache' = cache)]_vars

\* C11 as amended. release() of a sequence-file or graph-file adapter is
\* idempotent, never changes the stored data or the configuration, leaves no
\* cache entry for the adapter's path and every other entry as it was; the
\* graph-file adapter also forgets the load and save versions it resolved
\* earlier, so that release() changes nothing when there is no cache entry
\* and no remembered version.
C11_ReleaseForgetsCachesOnly ==
    [][/\ ReleaseFrame
       /\ ReleaseStep =>
             /\ CacheKey(insts[ret'.slot]) \notin DOMAIN cache'
             /\ ret'.cls = "GraphMLDataset" =>
                   insts'[ret'.slot]._version_cache = EmptyVersionCache
       /\ (/\ ReleaseStep
           /\ CacheKey(insts[ret'.slot]) \notin DOMAIN cache
           /\ Configuration(insts[ret'.slot]) = insts[ret'.slot]) =>
             (insts' = insts /\ cache' = cache)]_vars

\* A versioned graph-file adapter that has been released, with a version of
\* its file in the store.
C11_Witness ==
    /\ ret.op = "release" /\ ret.cls = "GraphMLDataset"
    /\ insts[ret.slot]._version # None
    /\ Versions(store, CacheKey(insts[ret.slot])[1], CacheKey(insts[ret.slot])[2]) # {}
    /\ insts[ret.slot]._version_cache = EmptyVersionCache
    /\ CacheKey(insts[ret.slot]) \notin DOMAIN cache

\* The query a table adapter holds in its load options, None when it holds
\* none.
HeldQuery(self) == Get(self._load_args, "query")

\* C12. A GBQTableDataset holds in its load options the user's 'query' from
\* construction on, and else none or the generated "select * from
\* <dataset>.<table_name>", whatever is called on it; and every load() makes
\* one call of read_gbq, with the held query if there is one and the
\* generated query otherwise. So every load(), the first and the later ones,
\* runs the user's query if one was supplied and the generated one if not.
C12_TableLoadQuery ==
    [][/\ (ret'.op = "__init__" /\ ret'.cls = "GBQTableDataset" /\ ret'.raised = NoRaise) =>
             HeldQuery(insts'[ret'.slot]) = Get(OrEmpty(ret'.arg[1].load_args), "query")
       /\ \A s \in Slots :
             insts[s].cls = "GBQTableDataset" =>
                /\ insts'[s].cls = "GBQTableDataset"
                /\ GeneratedQuery(insts'[s]) = GeneratedQuery(insts[s])
                /\ HeldQuery(insts'[s]) \in
                      {HeldQuery(insts[s])} \cup
                      (IF HeldQuery(insts[s]) = None
                       THEN {Some(GeneratedQuery(insts[s]))} ELSE {})
       /\ (ret'.op = "load" /\ ret'.cls = "GBQTableDataset") =>
             /\ Len(ret'.calls) = 1
             /\ ret'.calls[1].fn = "pd.read_gbq"
             /\ ret'.calls[1].query =
                   IF HeldQuery(insts[ret'.slot]) = None
                   THEN GeneratedQuery(insts[ret'.slot])
                   ELSE HeldQuery(insts[ret'.slot])[1]]_vars

\* A load() that ran the user's query, which is not the generated one.
C12_Witness ==
    /\ ret.op = "load" /\ ret.cls = "GBQTableDataset"
    /\ ret.raised = NoRaise
    /\ ret.calls[1].query = << "SELECT 1" >>
    /\ ret.calls[1].query # GeneratedQuery(insts[ret.slot])

\* The read_gbq calls among the calls of a load().
RemoteCalls(calls) == {i \in 1..Len(calls) : calls[i].fn = "pd.read_gbq"}

\* The text of the query file of an adapter constructed with a file path,
\* None when the store holds no such file.
QueryFileText(self) ==
    LET k == << self._protocol, get_filepath_str(self._filepath[1], self._protocol), 0 >>
    IN IF k \in DOMAIN store THEN Some(store[k]) ELSE None

\* C13 as stated. A GBQQueryDataset constructed with sql holds that text as
\* its query and no file path; one constructed with a file path holds the
\* path and the user's load options; no call changes the instance. A load()
\* with inline sql makes one read_gbq call, with that text, and opens no
\* file. A load() with a file path makes at most one read_gbq call, only
\* with the text the file holds at that moment, and makes that call whenever
\* the file is there.
C13_QueryLoadPassesOneText ==
    [][/\ (ret'.op = "__init__" /\ ret'.cls = "GBQQueryDataset" /\ ret'.raised = NoRaise) =>
             IF Truthy(ret'.arg[1].sql)
             THEN /\ insts'[ret'.slot]._filepath = None
                  /\ HeldQuery(insts'[ret'.slot]) = ret'.arg[1].sql
             ELSE /\ insts'[ret'.slot]._filepath # None
                  /\ insts'[ret'.slot]._load_args = OrEmpty(ret'.arg[1].load_args)
       /\ \A s \in Slots : insts[s].cls = "GBQQueryDataset" => insts'[s] = insts[s]
       /\ (ret'.op = "load" /\ ret'.cls = "GBQQueryDataset") =>
             LET self == insts[ret'.slot]
                 calls == ret'.calls
             IN IF self._filepath = None
                THEN /\ Len(calls) = 1 /\ RemoteCalls(calls) = {1}
                     /\ calls[1].query = HeldQuery(self)[1]
                ELSE /\ \A i \in RemoteCalls(calls) :
                           Some(calls[i].query) = QueryFileText(self)
                     /\ QueryFileText(self) # None =>
                           /\ Len(calls) = 2 /\ RemoteCalls(calls) = {2}
                           /\ calls[1].fn = "fs.open"]_vars

\* The stream options a file adapter holds are those the user gave, with the
\* class's mode added only where the user gave none.
IsDefaultedModes(held, given, mode) ==
    /\ DOMAIN held = DOMAIN given \cup {"mode"}
    /\ \A k \in DOMAIN given : held[k] = given[k]
    /\ "mode" \notin DOMAIN given => held["mode"] = mode

ClassesWithDefaults == DOMAIN ClassBodies

\* C15. With two instances alive: the class-level DEFAULT_LOAD_ARGS and
\* DEFAULT_SAVE_ARGS hold what the class bodies set, whatever has been
\* constructed and called; a call on one instance (its construction
\* included) leaves the other instance, so its option maps and describe(),
\* as it was; and a GBQTableDataset constructed after another one's load()
\* wrote a 'query' into its own load options gets the merge of the original
\* defaults and its own arguments.
C15_NoSharedState ==
    [][/\ classes' = ClassBodies
       /\ \A t \in TwoSlots \ {ret'.slot} :
             /\ insts'[t] = insts[t]
             /\ insts[t] # NoInst => Describe(insts'[t]) = Describe(insts[t])
       /\ (/\ ret'.op = "__init__" /\ ret'.raised = NoRaise
           /\ ret'.cls \in ClassesWithDefaults \ {"GBQQueryDataset"}) =>
             /\ IsMerge(insts'[ret'.slot]._load_args,
                        ClassBodies[ret'.cls].DEFAULT_LOAD_ARGS,
                        OrEmpty(ret'.arg[1].load_args))
             /\ IsMerge(insts'[ret'.slot]._save_args,
                        ClassBodies[ret'.cls].DEFAULT_SAVE_ARGS,
                        OrEmpty(ret'.arg[1].save_args))]_vars

\* Two table adapters: the first has loaded and holds the generated query,
\* the second was constructed after that and holds none.
C15_Witness ==
    /\ ret.op = "__init__" /\ ret.slot = "b" /\ ret.raised = NoRaise
    /\ DOMAIN insts = TwoSlots
    /\ insts["a"].cls = "GBQTableDataset" /\ insts["b"].cls = "GBQTableDataset"
    /\ HeldQuery(insts["a"]) = Some(GeneratedQuery(insts["a"]))
    /\ HeldQuery(insts["b"]) = None
    /\ classes = ClassBodies

====
